---- MODULE Spec2Model ----
(***************************************************************************)
(* The story runtime of packages/core/src/runtime.ts: a closure over a     *)
(* read-only story and the runtime options, whose only mutable state is    *)
(* the position (currentKnotId, currentNodeId).  Every call of the public  *)
(* interface (createRuntime, current, choose, divert) is one action; the   *)
(* call, its arguments, the position before it and what it returned or     *)
(* threw are recorded in `last`.                                           *)
(***************************************************************************)
EXTENDS Integers, Sequences, FiniteSets, TLC

VARIABLES story, options, runtime, currentKnotId, currentNodeId, last

(* A second createRuntime call on the same story has a closure of its own   *)
(* (its own `let currentKnotId`, `let currentNodeId`).  The closure whose    *)
(* methods are being called is in runtime, currentKnotId and currentNodeId; *)
(* `resting` holds the closure of the runtime that is not being called,    *)
(* and `active` tells which of the two is.                                 *)
VARIABLES resting, active

(* The locals of one analyzeStory call (packages/core/src/analyzer.ts), the  *)
(* point the call has reached (pc, cursor, frames), what the call returned  *)
(* and what the call before it returned.                                    *)
VARIABLES pc, issues, adjacency, allNodes, terminalNodes, visited, queue,
          reachableNodes, cursor, index, indices, lowLink, stack, onStack,
          sccs, frames, returned, previous

runtimeVars == <<options, runtime, currentKnotId, currentNodeId, last, resting, active>>

analyzerVars ==
  <<pc, issues, adjacency, allNodes, terminalNodes, visited, queue,
    reachableNodes, cursor, index, indices, lowLink, stack, onStack,
    sccs, frames, returned, previous>>

vars == <<story, runtimeVars, analyzerVars>>

----------------------------------------------------------------------------
(* Optional properties (`effect?: TEffect`, `knot?: KnotId`, ...): absent   *)
(* is the empty tuple, present is a one-element tuple.                      *)

Undefined == <<>>

Def(x) == <<x>>

IsDefined(o) == Len(o) = 1

(* A call either returns a value or throws an Error of some kind.           *)

Return(v) == [threw |-> FALSE, value |-> v]

Throw(e) == [threw |-> TRUE, error |-> e]

----------------------------------------------------------------------------
(* The stories, the options and the caller states the runtime is run on.    *)

MaxChoices == 2

MissingKnot == "k3"

MissingNode == "z"

Levels == {3, 5}

States == [hasKey : BOOLEAN, level : Levels]

HookCondition(name) == Def([type |-> "hook", name |-> name])

ExpressionCondition(expr) == Def([type |-> "expression", expr |-> expr])

Target(knot, node) == [knot |-> knot, node |-> node]

ChoiceBody(target, effect, condition) ==
  [target |-> target, effect |-> effect, condition |-> condition]

ChoiceBodies ==
  { ChoiceBody(Target(Undefined, "b"), Undefined, Undefined),
    ChoiceBody(Target(Def("k2"), "a"), Def(1), HookCondition("hasKey")),
    ChoiceBody(Target(Undefined, "a"), Def(0), ExpressionCondition("level >= 5")),
    ChoiceBody(Target(Undefined, MissingNode), Def(1), Undefined),
    ChoiceBody(Target(Def(MissingKnot), "a"), Undefined, HookCondition("hasKey")) }

ChoiceIdNames == <<"c1", "c2", "c3", "c4">>

LabelNames == <<"L1", "L2", "L3", "L4">>

Choice(i, body) ==
  [id |-> ChoiceIdNames[i], label |-> LabelNames[i], target |-> body.target,
   effect |-> body.effect, condition |-> body.condition]

(* Choice lists of at most MaxChoices choices, ids unique within the node.  *)
ChoiceLists ==
  UNION { { [i \in 1..n |-> Choice(i, f[i])] :
              f \in { g \in [1..n -> ChoiceBodies] :
                        \A i, j \in 1..n : g[i] = g[j] => i = j } } :
          n \in 0..MaxChoices }

Node(id, text, tags, choices, effect, ending) ==
  [id |-> id, text |-> text, tags |-> tags, choices |-> choices,
   effect |-> effect, ending |-> ending]

StringText(s) == Def([type |-> "string", value |-> s])

ArrayText(lines) == Def([type |-> "array", value |-> lines])

MakeStory(entryKnot, entryNode, choicesA) ==
  [ version |-> 1,
    entryKnot |-> entryKnot,
    knots |->
      [ k1 |->
          [ id |-> "k1",
            entryNode |-> entryNode,
            nodes |->
              [ a |-> Node("a", StringText("You wake up."), Undefined,
                           choicesA, Undefined, Undefined),
                b |-> Node("b", ArrayText(<<"You see", "a door.">>),
                           Def(<<"intro">>),
                           Def(<<[id |-> "back", label |-> "Go back",
                                  target |-> Target(Def("k1"), "a"),
                                  effect |-> Def(1), condition |-> Undefined],
                                 [id |-> "gate", label |-> "Gated",
                                  target |-> Target(Def("k2"), "a"),
                                  effect |-> Undefined,
                                  condition |-> ExpressionCondition("level >= 5")]>>),
                           Def(0), Undefined) ] ],
        k2 |->
          [ id |-> "k2",
            entryNode |-> "a",
            nodes |->
              [ a |-> Node("a", Undefined, Undefined, Undefined, Def(2),
                           Def([id |-> "end"])) ] ] ] ]

Stories ==
  { MakeStory(ek, en, cs) :
      ek \in {"k1", MissingKnot},
      en \in {"a", MissingNode},
      cs \in {Undefined} \cup {Def(l) : l \in ChoiceLists} }

RuntimeOptions(conditionHooks, expressionEvaluator) ==
  [conditionHooks |-> conditionHooks, expressionEvaluator |-> expressionEvaluator]

OptionsSet ==
  { Undefined,
    Def(RuntimeOptions(Def({"hasKey"}), Undefined)),
    Def(RuntimeOptions(Undefined, Def("evaluator"))),
    Def(RuntimeOptions(Def({"hasKey"}), Def("evaluator"))) }

(* The registered hook `hasKey: (state) => state.hasKey`.                  *)
conditionHook(name, state) == IF name = "hasKey" THEN state.hasKey ELSE FALSE

(* The registered evaluator: `level >= 5` compares, anything else is false. *)
expressionEvaluator(expr, state) ==
  IF expr = "level >= 5" THEN state.level >= 5 ELSE FALSE

ChooseIds ==
  {ChoiceIdNames[i] : i \in 1..MaxChoices} \cup {"back", "nope"}

DivertTargets ==
  { Target(Undefined, "b"), Target(Def("k1"), "a"), Target(Def("k2"), "a"),
    Target(Def("k2"), "b"), Target(Def(MissingKnot), "a") }

----------------------------------------------------------------------------
(* runtime.ts                                                               *)

NoId == "-"

getStory == story

getPosition == [knotId |-> currentKnotId, nodeId |-> currentNodeId]

getNode(knotId, nodeId) ==
  IF knotId \notin DOMAIN story.knots
  THEN Throw("Knot not found")
  ELSE IF nodeId \notin DOMAIN story.knots[knotId].nodes
       THEN Throw("Node not found")
       ELSE Return(story.knots[knotId].nodes[nodeId])

(* options?.conditionHooks?.[name]                                          *)
lookupHook(name) ==
  IF IsDefined(options) /\ IsDefined(options[1].conditionHooks)
     /\ name \in options[1].conditionHooks[1]
  THEN Def(name)
  ELSE Undefined

(* options?.expressionEvaluator                                             *)
lookupEvaluator ==
  IF IsDefined(options) THEN options[1].expressionEvaluator ELSE Undefined

(* Variant: a condition without a resolver is taken to be false.            *)
evaluateConditionMissingIsFalse(condition, state) ==
  IF ~IsDefined(condition)
  THEN Return(TRUE)
  ELSE LET c == condition[1] IN
       IF c.type = "hook"
       THEN IF IsDefined(lookupHook(c.name))
            THEN Return(conditionHook(c.name, state))
            ELSE Return(FALSE)
       ELSE IF c.type = "expression"
            THEN IF IsDefined(lookupEvaluator)
                 THEN Return(expressionEvaluator(c.expr, state))
                 ELSE Return(FALSE)
            ELSE Return(TRUE)

(* Variant: a registered hook is found but its verdict is not used.         *)
evaluateConditionHookUnused(condition, state) ==
  IF ~IsDefined(condition)
  THEN Return(TRUE)
  ELSE LET c == condition[1] IN
       IF c.type = "hook"
       THEN IF IsDefined(lookupHook(c.name))
            THEN Return(TRUE)
            ELSE Throw("Condition hook not found")
       ELSE IF c.type = "expression"
            THEN IF IsDefined(lookupEvaluator)
                 THEN Return(expressionEvaluator(c.expr, state))
                 ELSE Throw("Expression evaluator not provided")
            ELSE Return(TRUE)

(* Variant: the evaluator is asked for before the condition is looked at.   *)
evaluateConditionNeedsEvaluator(condition, state) ==
  IF ~IsDefined(lookupEvaluator)
  THEN Throw("Expression evaluator not provided")
  ELSE IF ~IsDefined(condition)
  THEN Return(TRUE)
  ELSE LET c == condition[1] IN
       IF c.type = "hook"
       THEN IF IsDefined(lookupHook(c.name))
            THEN Return(conditionHook(c.name, state))
            ELSE Throw("Condition hook not found")
       ELSE IF c.type = "expression"
            THEN Return(expressionEvaluator(c.expr, state))
            ELSE Return(TRUE)

evaluateCondition(condition, state) ==
  IF ~IsDefined(condition)
  THEN Return(TRUE)
  ELSE LET c == condition[1] IN
       IF c.type = "hook"
       THEN IF IsDefined(lookupHook(c.name))
            THEN Return(conditionHook(c.name, state))
            ELSE Throw("Condition hook not found")
       ELSE IF c.type = "expression"
            THEN IF IsDefined(lookupEvaluator)
                 THEN Return(expressionEvaluator(c.expr, state))
                 ELSE Throw("Expression evaluator not provided")
            ELSE Return(TRUE)

(* typeof node.text === 'string' ? [node.text] : node.text || []            *)
normalizeText(text) ==
  IF IsDefined(text) /\ text[1].type = "string"
  THEN <<text[1].value>>
  ELSE IF IsDefined(text) THEN text[1].value ELSE <<>>

(* Variant: the choices are mapped to {id, label} without the filter.       *)
filterChoicesUnfiltered(choices, state) ==
  LET all == IF IsDefined(choices) THEN choices[1] ELSE <<>>
  IN  Return([i \in 1..Len(all) |-> [id |-> all[i].id, label |-> all[i].label]])

(* (node.choices || []).filter(...).map(...): the first condition that      *)
(* throws aborts the filter; otherwise the passing choices, in order, as    *)
(* {id, label}.                                                             *)
filterChoices(choices, state) ==
  LET all == IF IsDefined(choices) THEN choices[1] ELSE <<>>
      verdict == [i \in 1..Len(all) |-> evaluateCondition(all[i].condition, state)]
      thrown == {i \in 1..Len(all) : verdict[i].threw}
  IN  IF thrown # {}
      THEN verdict[CHOOSE i \in thrown : \A j \in thrown : i <= j]
      ELSE LET kept == SelectSeq(all,
                         LAMBDA c : evaluateCondition(c.condition, state).value)
           IN  Return([i \in 1..Len(kept) |->
                        [id |-> kept[i].id, label |-> kept[i].label]])

(* node.effect ? [node.effect] : []  and  choice.effect ? [choice.effect] : [] *)
effectList(effect) ==
  IF IsDefined(effect) /\ effect[1] # 0 THEN <<effect[1]>> ELSE <<>>

buildStepResult(knotId, nodeId, state, extraEffects) ==
  LET got == getNode(knotId, nodeId) IN
  IF got.threw
  THEN got
  ELSE LET node == got.value
           text == normalizeText(node.text)
           tags == IF IsDefined(node.tags) THEN node.tags[1] ELSE <<>>
           ending == node.ending
           choices == filterChoices(node.choices, state)
           nodeEffects == effectList(node.effect)
           allEffects == extraEffects \o nodeEffects
       IN  IF choices.threw
           THEN choices
           ELSE Return([nodeId |-> nodeId, knotId |-> knotId, text |-> text,
                        tags |-> tags, ending |-> ending,
                        choices |-> choices.value, effects |-> allEffects])

(* Variant: find((c) => c.id = choiceId) matches the first choice.          *)
findChoiceFirst(node, choiceId) ==
  LET all == IF IsDefined(node.choices) THEN node.choices[1] ELSE <<>>
  IN  IF all = <<>> THEN Undefined ELSE Def(all[1])

(* node.choices?.find((c) => c.id === choiceId)                             *)
findChoice(node, choiceId) ==
  LET all == IF IsDefined(node.choices) THEN node.choices[1] ELSE <<>>
      hits == {i \in 1..Len(all) : all[i].id = choiceId}
  IN  IF hits = {}
      THEN Undefined
      ELSE Def(all[CHOOSE i \in hits : \A j \in hits : i <= j])

(* Variant: the target's knot is ignored, the jump stays in the knot.       *)
resolveKnotIgnored(knot, current) == current

(* target.knot || currentKnotId                                             *)
resolveKnot(knot, current) ==
  IF IsDefined(knot) /\ knot[1] # "" THEN knot[1] ELSE current

(* What a call leaves behind: the position and what it returned or threw.   *)
Outcome(knotId, nodeId, ret) == [knotId |-> knotId, nodeId |-> nodeId, ret |-> ret]

Stay(ret) == Outcome(currentKnotId, currentNodeId, ret)

(* Variant: the position is written without verifying the target first.    *)
moveToUnverified(targetKnotId, targetNodeId, state, extraEffects) ==
  Outcome(targetKnotId, targetNodeId,
    buildStepResult(targetKnotId, targetNodeId, state, extraEffects))

(* The tail choose and divert share: getNode(target) verifies the target     *)
(* exists, then the position is written, then the StepResult is built at    *)
(* the new position.                                                        *)
moveTo(targetKnotId, targetNodeId, state, extraEffects) ==
  LET target == getNode(targetKnotId, targetNodeId) IN
  IF target.threw
  THEN Stay(target)
  ELSE Outcome(targetKnotId, targetNodeId,
         buildStepResult(targetKnotId, targetNodeId, state, extraEffects))

(* Variant: current rewinds the position to the knot's entry node.         *)
currentResultRewinding(state) ==
  LET entryNode == story.knots[currentKnotId].entryNode
  IN  Outcome(currentKnotId, entryNode,
        buildStepResult(currentKnotId, entryNode, state, <<>>))

currentResult(state) ==
  Stay(buildStepResult(currentKnotId, currentNodeId, state, <<>>))

(* Variant: a choice that was found is taken without asking its condition.  *)
chooseResultUnconditioned(choiceId, state) ==
  LET node == getNode(currentKnotId, currentNodeId) IN
  IF node.threw
  THEN Stay(node)
  ELSE LET choice == findChoice(node.value, choiceId) IN
       IF ~IsDefined(choice)
       THEN Stay(Throw("Choice not found"))
       ELSE moveTo(resolveKnot(choice[1].target.knot, currentKnotId),
                   choice[1].target.node, state, effectList(choice[1].effect))

chooseResult(choiceId, state) ==
  LET node == getNode(currentKnotId, currentNodeId) IN
  IF node.threw
  THEN Stay(node)
  ELSE LET choice == findChoice(node.value, choiceId) IN
       IF ~IsDefined(choice)
       THEN Stay(Throw("Choice not found"))
       ELSE LET available == evaluateCondition(choice[1].condition, state) IN
            IF available.threw
            THEN Stay(available)
            ELSE IF ~available.value
                 THEN Stay(Throw("Choice not available"))
                 ELSE LET choiceEffects == effectList(choice[1].effect)
                          targetKnotId == resolveKnot(choice[1].target.knot, currentKnotId)
                          targetNodeId == choice[1].target.node
                      IN  moveTo(targetKnotId, targetNodeId, state, choiceEffects)

(* Variant: divert refuses a target that a choice of the current node       *)
(* guards with a condition that does not hold.                              *)
divertResultGuarded(to, state) ==
  LET targetKnotId == resolveKnot(to.knot, currentKnotId)
      targetNodeId == to.node
      node == getNode(currentKnotId, currentNodeId)
      all == IF ~node.threw /\ IsDefined(node.value.choices)
             THEN node.value.choices[1] ELSE <<>>
      guarded == \E i \in 1..Len(all) :
                   /\ resolveKnot(all[i].target.knot, currentKnotId) = targetKnotId
                   /\ all[i].target.node = targetNodeId
                   /\ LET v == evaluateCondition(all[i].condition, state)
                      IN  ~v.threw /\ ~v.value
  IN  IF guarded
      THEN Stay(Throw("Choice not available"))
      ELSE moveTo(targetKnotId, targetNodeId, state, <<>>)

divertResult(to, state) ==
  LET targetKnotId == resolveKnot(to.knot, currentKnotId)
      targetNodeId == to.node
  IN  moveTo(targetKnotId, targetNodeId, state, <<>>)

----------------------------------------------------------------------------
(* The calls.                                                               *)

(* No analyzeStory call has been made.                                      *)
analyzerIdle ==
  /\ pc = "idle"
  /\ issues = <<>>
  /\ adjacency = <<>>
  /\ allNodes = <<>>
  /\ terminalNodes = {}
  /\ visited = <<>>
  /\ queue = <<>>
  /\ reachableNodes = <<>>
  /\ cursor = 1
  /\ index = 0
  /\ indices = <<>>
  /\ lowLink = <<>>
  /\ stack = <<>>
  /\ onStack = {}
  /\ sccs = <<>>
  /\ frames = <<>>
  /\ returned = Undefined
  /\ previous = Undefined

Call(op, choiceId, to, state, ret) ==
  [op |-> op, choiceId |-> choiceId, to |-> to, state |-> state,
   pre |-> getPosition, ret |-> ret]

(* Variant: the tags a step returned are written back into the node.        *)
CommitCachingTags(op, choiceId, to, state, outcome) ==
  /\ currentKnotId' = outcome.knotId
  /\ currentNodeId' = outcome.nodeId
  /\ last' = Call(op, choiceId, to, state, outcome.ret)
  /\ story' = IF outcome.ret.threw
              THEN story
              ELSE [story EXCEPT
                      !.knots[outcome.knotId].nodes[outcome.nodeId].tags =
                        Def(outcome.ret.value.tags)]
  /\ UNCHANGED <<options, runtime, resting, active, analyzerVars>>

(* Variant: the position is kept in variables that all runtimes share.      *)
CommitSharedPosition(op, choiceId, to, state, outcome) ==
  /\ currentKnotId' = outcome.knotId
  /\ currentNodeId' = outcome.nodeId
  /\ resting' = [resting EXCEPT !.knotId = outcome.knotId, !.nodeId = outcome.nodeId]
  /\ last' = Call(op, choiceId, to, state, outcome.ret)
  /\ UNCHANGED <<story, options, runtime, active, analyzerVars>>

Commit(op, choiceId, to, state, outcome) ==
  /\ currentKnotId' = outcome.knotId
  /\ currentNodeId' = outcome.nodeId
  /\ last' = Call(op, choiceId, to, state, outcome.ret)
  /\ UNCHANGED <<story, options, runtime, resting, active, analyzerVars>>

(* The closure of a runtime: whether createRuntime has returned it, and its *)
(* two variables.                                                           *)
Closure(created, knotId, nodeId) ==
  [runtime |-> created, knotId |-> knotId, nodeId |-> nodeId]

(* No second createRuntime call has been made.                              *)
singleRuntime ==
  /\ resting = Closure("none", NoId, NoId)
  /\ active = 1

Init ==
  /\ story \in Stories
  /\ options \in OptionsSet
  /\ runtime = "none"
  /\ currentKnotId = NoId
  /\ currentNodeId = NoId
  /\ last = Call("none", Undefined, Undefined, Undefined, Return("none"))
  /\ singleRuntime
  /\ analyzerIdle

(* let currentKnotId = story.entryKnot;                                     *)
(* let currentNodeId = story.knots[currentKnotId].entryNode;                *)
(* reading entryNode of a missing knot is a TypeError.                      *)
createRuntime ==
  /\ runtime = "none"
  /\ IF story.entryKnot \in DOMAIN story.knots
     THEN /\ runtime' = "live"
          /\ currentKnotId' = story.entryKnot
          /\ currentNodeId' = story.knots[story.entryKnot].entryNode
          /\ last' = Call("createRuntime", Undefined, Undefined, Undefined,
                          Return("runtime"))
     ELSE /\ runtime' = "failed"
          /\ UNCHANGED <<currentKnotId, currentNodeId>>
          /\ last' = Call("createRuntime", Undefined, Undefined, Undefined,
                          Throw("TypeError"))
  /\ UNCHANGED <<story, options, resting, active, analyzerVars>>

current(state) ==
  /\ runtime = "live"
  /\ Commit("current", Undefined, Undefined, Def(state), currentResult(state))

choose(choiceId, state) ==
  /\ runtime = "live"
  /\ Commit("choose", Def(choiceId), Undefined, Def(state),
            chooseResult(choiceId, state))

divert(to, state) ==
  /\ runtime = "live"
  /\ Commit("divert", Undefined, Def(to), Def(state), divertResult(to, state))

Next ==
  \/ createRuntime
  \/ \E state \in States : current(state)
  \/ \E choiceId \in ChooseIds, state \in States : choose(choiceId, state)
  \/ \E to \in DivertTargets, state \in States : divert(to, state)

Spec == Init /\ [][Next]_vars

----------------------------------------------------------------------------
(* What the properties below read off the story and the last call.          *)

NodeExists(knotId, nodeId) ==
  /\ knotId \in DOMAIN story.knots
  /\ nodeId \in DOMAIN story.knots[knotId].nodes

NodeAt(knotId, nodeId) == story.knots[knotId].nodes[nodeId]

ChoicesOf(node) == IF IsDefined(node.choices) THEN node.choices[1] ELSE <<>>

Called(op) == last.op = op

Returned == ~last.ret.threw

Threw == last.ret.threw

PositionUnchanged == getPosition = last.pre

PreExists == NodeExists(last.pre.knotId, last.pre.nodeId)

PreNode == NodeAt(last.pre.knotId, last.pre.nodeId)

(* The choices of the node the call started at that carry the requested id. *)
Requested ==
  {i \in 1..Len(ChoicesOf(PreNode)) : ChoicesOf(PreNode)[i].id = last.choiceId[1]}

Chosen == ChoicesOf(PreNode)[CHOOSE i \in Requested : \A j \in Requested : i <= j]

(* The target a {knot?, node} names when followed from the starting knot.   *)
NamedKnot(target) ==
  IF IsDefined(target.knot) THEN target.knot[1] ELSE last.pre.knotId

NamedExists(target) == NodeExists(NamedKnot(target), target.node)

ResolverRegistered(c) ==
  IF c.type = "hook"
  THEN /\ IsDefined(options)
       /\ IsDefined(options[1].conditionHooks)
       /\ c.name \in options[1].conditionHooks[1]
  ELSE /\ IsDefined(options)
       /\ IsDefined(options[1].expressionEvaluator)

ResolverVerdict(c, state) ==
  IF c.type = "hook"
  THEN conditionHook(c.name, state)
  ELSE expressionEvaluator(c.expr, state)

ConditionHolds(condition, state) ==
  ~IsDefined(condition) \/ ResolverVerdict(condition[1], state)

DefinedEffect(effect) == IF IsDefined(effect) THEN <<effect[1]>> ELSE <<>>

RECURSIVE VisibleChoices(_, _)
VisibleChoices(choices, state) ==
  IF choices = <<>>
  THEN <<>>
  ELSE (IF ConditionHolds(Head(choices).condition, state)
        THEN <<[id |-> Head(choices).id, label |-> Head(choices).label]>>
        ELSE <<>>) \o VisibleChoices(Tail(choices), state)

----------------------------------------------------------------------------
(* C1: once a runtime has been constructed without error, after any calls    *)
(* of current, choose and divert the position names a knot of the story and *)
(* a node of that knot.                                                     *)
C1_PositionNamesExistingNode ==
  runtime = "live" => NodeExists(currentKnotId, currentNodeId)

(* C2: createRuntime throws when the entry knot is not in story.knots, and  *)
(* also when the entry knot exists but its entryNode is not in its nodes.   *)
C2_ConstructionFailsWithoutEntry ==
  (Called("createRuntime")
    /\ ~( /\ story.entryKnot \in DOMAIN story.knots
          /\ story.knots[story.entryKnot].entryNode
               \in DOMAIN story.knots[story.entryKnot].nodes ))
  => (Threw /\ runtime = "failed")

(* C3: current(state) never changes the position, whether it returns a      *)
(* StepResult or throws.                                                    *)
C3_CurrentKeepsPosition ==
  Called("current") => PositionUnchanged

C3_Witness ==
  Called("current") /\ Threw /\ PositionUnchanged

(* C4: a choose that succeeds from (k, n) leaves the position at the chosen *)
(* choice's target (its knot if it gives one, otherwise k; its node), and   *)
(* the returned StepResult's knotId and nodeId are that position.           *)
C4_ChooseMovesToTarget ==
  (Called("choose") /\ Returned)
  => /\ getPosition = [knotId |-> NamedKnot(Chosen.target),
                       nodeId |-> Chosen.target.node]
     /\ last.ret.value.knotId = getPosition.knotId
     /\ last.ret.value.nodeId = getPosition.nodeId

C4_Witness ==
  /\ Called("choose") /\ Returned
  /\ IsDefined(Chosen.target.knot)
  /\ currentKnotId # last.pre.knotId
  /\ last.ret.value.knotId = currentKnotId

(* C5: a choose that succeeds returns effects = [choiceEffect?, nodeEffect?]: *)
(* the choice's effect if it defines one (whatever the value, 0 included),  *)
(* then the arrival node's effect if it defines one, and nothing else.      *)
C5_ChooseEffectsAreChoiceThenNode ==
  (Called("choose") /\ Returned)
  => last.ret.value.effects =
       DefinedEffect(Chosen.effect)
         \o DefinedEffect(NodeAt(currentKnotId, currentNodeId).effect)

(* C6: choose fails when the current node has no choice with the requested  *)
(* id (also when it has no choices at all), and the position is unchanged.  *)
C6_UnknownChoiceFails ==
  (Called("choose") /\ PreExists /\ Requested = {})
  => (Threw /\ last.ret.error = "Choice not found" /\ PositionUnchanged)

C6_Witness ==
  /\ Called("choose") /\ PreExists /\ Requested = {}
  /\ ~IsDefined(PreNode.choices)
  /\ Threw /\ PositionUnchanged

(* C7: choose on a choice whose condition has a registered resolver that    *)
(* evaluates false for the state fails with the condition-unmet error and   *)
(* the position is unchanged: the transition is not taken.                  *)
C7_UnmetConditionRefusesChoice ==
  (Called("choose") /\ PreExists /\ Requested # {}
    /\ IsDefined(Chosen.condition)
    /\ ResolverRegistered(Chosen.condition[1])
    /\ ~ResolverVerdict(Chosen.condition[1], last.state[1]))
  => (Threw /\ last.ret.error = "Choice not available" /\ PositionUnchanged)

C7_Witness ==
  /\ Called("choose") /\ PreExists /\ Requested # {}
  /\ IsDefined(Chosen.condition)
  /\ Chosen.condition[1].type = "hook"
  /\ ResolverRegistered(Chosen.condition[1])
  /\ ~ResolverVerdict(Chosen.condition[1], last.state[1])
  /\ NamedExists(Chosen.target)
  /\ Threw /\ PositionUnchanged

(* C8: choose and divert fail when the resolved target knot does not exist, *)
(* or it exists but the target node is not in it, and the position is then  *)
(* unchanged.                                                               *)
C8_MissingTargetFails ==
  /\ (Called("divert") /\ ~NamedExists(last.to[1]))
     => (Threw /\ PositionUnchanged)
  /\ (Called("choose") /\ PreExists /\ Requested # {} /\ ~NamedExists(Chosen.target))
     => (Threw /\ PositionUnchanged)

C8_Witness ==
  /\ Called("choose") /\ PreExists /\ Requested # {}
  /\ ConditionHolds(Chosen.condition, last.state[1])
  /\ ~NamedExists(Chosen.target)
  /\ Threw /\ last.ret.error = "Knot not found" /\ PositionUnchanged

(* C9: divert is an unconditional jump: for every existing target node it   *)
(* moves the position to (target.knot if given, otherwise the current knot; *)
(* target.node), whatever the choices of the current node and their         *)
(* conditions, and the returned effects hold nothing but the arrival node's *)
(* effect, never a choice effect.                                           *)
C9_DivertJumpsUnconditionally ==
  (Called("divert") /\ NamedExists(last.to[1]))
  => /\ getPosition = [knotId |-> NamedKnot(last.to[1]), nodeId |-> last.to[1].node]
     /\ Returned =>
          LET arrival == NodeAt(currentKnotId, currentNodeId)
              effects == last.ret.value.effects
          IN  /\ Len(effects) <= 1
              /\ \A i \in 1..Len(effects) :
                   IsDefined(arrival.effect) /\ effects[i] = arrival.effect[1]

(* A divert to the target of a choice whose condition does not hold.        *)
C9_Witness ==
  /\ Called("divert") /\ Returned /\ PreExists
  /\ getPosition # last.pre
  /\ Len(last.ret.value.effects) = 1
  /\ \E i \in 1..Len(ChoicesOf(PreNode)) :
       LET c == ChoicesOf(PreNode)[i] IN
         /\ NamedKnot(c.target) = currentKnotId
         /\ c.target.node = currentNodeId
         /\ IsDefined(c.condition)
         /\ ResolverRegistered(c.condition[1])
         /\ ~ResolverVerdict(c.condition[1], last.state[1])

(* C10: the choices of every StepResult (from current, choose or divert)    *)
(* are the node's choices whose condition is absent or evaluates true for   *)
(* the state, in the node's order, each reduced to its id and label.        *)
C10_ChoicesAreFilteredInOrder ==
  (last.op \in {"current", "choose", "divert"} /\ Returned)
  => /\ last.ret.value.choices =
          VisibleChoices(ChoicesOf(NodeAt(currentKnotId, currentNodeId)),
                         last.state[1])
     /\ \A i \in 1..Len(last.ret.value.choices) :
          DOMAIN last.ret.value.choices[i] = {"id", "label"}

(* A node with two choices of which the first is hidden, the second shown.  *)
C10_Witness ==
  /\ last.op \in {"current", "choose", "divert"} /\ Returned
  /\ LET all == ChoicesOf(NodeAt(currentKnotId, currentNodeId)) IN
       /\ Len(all) = 2
       /\ ~ConditionHolds(all[1].condition, last.state[1])
       /\ last.ret.value.choices = <<[id |-> all[2].id, label |-> all[2].label]>>

(* C11: a condition whose resolver is missing is never treated as false:    *)
(* when current, choose or divert evaluates a hook condition whose name is  *)
(* not registered, or an expression condition without an evaluator, the     *)
(* call throws instead of hiding the choice or returning a StepResult.      *)
Unresolvable(choices) ==
  \E i \in 1..Len(choices) :
    IsDefined(choices[i].condition) /\ ~ResolverRegistered(choices[i].condition[1])

MissingResolver ==
  Threw /\ last.ret.error \in {"Condition hook not found",
                               "Expression evaluator not provided"}

C11_MissingResolverFails ==
  /\ (Called("current") /\ PreExists /\ Unresolvable(ChoicesOf(PreNode)))
     => MissingResolver
  /\ (Called("choose") /\ PreExists /\ Requested # {}
       /\ IsDefined(Chosen.condition)
       /\ ~ResolverRegistered(Chosen.condition[1]))
     => MissingResolver
  /\ (Called("choose") /\ PreExists /\ Requested # {}
       /\ (IsDefined(Chosen.condition) => ResolverRegistered(Chosen.condition[1]))
       /\ ConditionHolds(Chosen.condition, last.state[1])
       /\ NamedExists(Chosen.target)
       /\ Unresolvable(ChoicesOf(NodeAt(NamedKnot(Chosen.target), Chosen.target.node))))
     => MissingResolver
  /\ (Called("divert") /\ NamedExists(last.to[1])
       /\ Unresolvable(ChoicesOf(NodeAt(NamedKnot(last.to[1]), last.to[1].node))))
     => MissingResolver

(* current on a node that has a hook-guarded choice, no hook registered.    *)
C11_Witness ==
  /\ Called("current") /\ PreExists
  /\ Unresolvable(ChoicesOf(PreNode))
  /\ Threw /\ last.ret.error = "Condition hook not found"

----------------------------------------------------------------------------
(* The stories analyzeStory is run on: the nodes k1.a, k1.b and k2.a with   *)
(* at most MaxEdges choices in all, a node k2.b without choices that is     *)
(* there or not, at most one ending, and an entry that exists, whose node   *)
(* is missing, or whose knot is missing.  Where k2.b is not there, a choice *)
(* from k2.a to the knot-less target "b" dangles.                           *)

MaxEdges == 3

AnalyzerTargets ==
  { Target(Def("k1"), "a"), Target(Undefined, "b"), Target(Def("k2"), "a") }

TargetLists == UNION { [1..n -> AnalyzerTargets] : n \in 0..MaxEdges }

AnalyzerChoices(targets) ==
  IF targets = <<>>
  THEN Undefined
  ELSE Def([i \in 1..Len(targets) |->
              [id |-> ChoiceIdNames[i], label |-> LabelNames[i],
               target |-> targets[i], effect |-> Undefined,
               condition |-> Undefined]])

Ending(marked) == IF marked THEN Def([id |-> "end"]) ELSE Undefined

BareNode(id) == Node(id, Undefined, Undefined, Undefined, Undefined, Undefined)

MakeGraphStory(entryKnot, entryNode, targetsA, targetsB, targetsC, endings, withB) ==
  [ version |-> 1,
    entryKnot |-> entryKnot,
    knots |->
      [ k1 |->
          [ id |-> "k1",
            entryNode |-> entryNode,
            nodes |->
              [ a |-> Node("a", Undefined, Undefined, AnalyzerChoices(targetsA),
                           Undefined, Ending(<<"k1", "a">> \in endings)),
                b |-> Node("b", Undefined, Undefined, AnalyzerChoices(targetsB),
                           Undefined, Ending(<<"k1", "b">> \in endings)) ] ],
        k2 |->
          [ id |-> "k2",
            entryNode |-> "a",
            nodes |->
              IF withB
              THEN [ a |-> Node("a", Undefined, Undefined, AnalyzerChoices(targetsC),
                                Undefined, Ending(<<"k2", "a">> \in endings)),
                     b |-> BareNode("b") ]
              ELSE [ a |-> Node("a", Undefined, Undefined, AnalyzerChoices(targetsC),
                                Undefined, Ending(<<"k2", "a">> \in endings)) ] ] ] ]

AnalyzerEntries ==
  { <<"k1", "a">>, <<"k1", MissingNode>>, <<MissingKnot, "a">> }

AnalyzerEndings ==
  { {}, {<<"k1", "a">>}, {<<"k1", "b">>}, {<<"k2", "a">>} }

AnalyzerStories ==
  { MakeGraphStory(e[1], e[2], t[1], t[2], t[3], en, withB) :
      e \in AnalyzerEntries,
      t \in { l \in TargetLists \X TargetLists \X TargetLists :
                Len(l[1]) + Len(l[2]) + Len(l[3]) <= MaxEdges },
      en \in AnalyzerEndings,
      withB \in BOOLEAN }

----------------------------------------------------------------------------
(* analyzer.ts.  A string is the sequence of its pieces, ":" being a piece  *)
(* of its own, so that building a key and splitting it are computed.        *)

Spelling ==
  ("k1:a" :> <<"k1", ":", "a">>) @@ ("a:b" :> <<"a", ":", "b">>)

Tokens(id) == IF id \in DOMAIN Spelling THEN Spelling[id] ELSE <<id>>

uId(k, n) == Tokens(k) \o <<":">> \o Tokens(n)

RECURSIVE split(_)
split(u) ==
  IF u = <<>>
  THEN << <<>> >>
  ELSE LET rest == split(Tail(u)) IN
       IF Head(u) = ":"
       THEN << <<>> >> \o rest
       ELSE << <<Head(u)>> \o Head(rest) >> \o Tail(rest)

parseUid(u) == LET parts == split(u) IN [knotId |-> parts[1], nodeId |-> parts[2]]

(* Set and Map of the language: a Set keeps insertion order.                *)
setHas(s, x) == \E i \in 1..Len(s) : s[i] = x

setAdd(s, x) == IF setHas(s, x) THEN s ELSE Append(s, x)

mapHas(m, k) == k \in DOMAIN m

mapSet(m, k, v) == [x \in DOMAIN m \cup {k} |-> IF x = k THEN v ELSE m[x]]

(* Object.entries order of the knots and of the nodes of a knot.            *)
KnotOrder == <<"k1", "k2", "k1:a">>

NodeOrder == <<"a", "b", "a:b">>

RECURSIVE flatten(_)
flatten(ss) == IF ss = <<>> THEN <<>> ELSE Head(ss) \o flatten(Tail(ss))

nodeEntries ==
  LET knotIds == SelectSeq(KnotOrder, LAMBDA k : k \in DOMAIN story.knots)
      nodesOf(k) ==
        LET nodeIds == SelectSeq(NodeOrder, LAMBDA n : n \in DOMAIN story.knots[k].nodes)
        IN  [j \in 1..Len(nodeIds) |->
               [knotId |-> k, nodeId |-> nodeIds[j],
                node |-> story.knots[k].nodes[nodeIds[j]]]]
  IN  flatten([i \in 1..Len(knotIds) |-> nodesOf(knotIds[i])])

(* Variant: the knot a choice names is not looked at.                       *)
targetKnotIgnored(choice, knotId) == knotId

(* choice.target.knot || knotId                                             *)
targetKnot(choice, knotId) ==
  IF IsDefined(choice.target.knot) THEN choice.target.knot[1] ELSE knotId

outgoingOf(knotId, node) ==
  IF IsDefined(node.choices)
  THEN [i \in 1..Len(node.choices[1]) |->
          uId(targetKnot(node.choices[1][i], knotId), node.choices[1][i].target.node)]
  ELSE <<>>

RECURSIVE buildAllNodes(_)
buildAllNodes(entries) ==
  IF entries = <<>>
  THEN <<>>
  ELSE LET e == entries[Len(entries)] IN
       setAdd(buildAllNodes(SubSeq(entries, 1, Len(entries) - 1)),
              uId(e.knotId, e.nodeId))

RECURSIVE buildAdjacency(_)
buildAdjacency(entries) ==
  IF entries = <<>>
  THEN <<>>
  ELSE LET e == entries[Len(entries)] IN
       mapSet(buildAdjacency(SubSeq(entries, 1, Len(entries) - 1)),
              uId(e.knotId, e.nodeId), outgoingOf(e.knotId, e.node))

buildTerminalNodes(entries) ==
  { uId(entries[i].knotId, entries[i].nodeId) :
      i \in { j \in 1..Len(entries) : IsDefined(entries[j].node.ending) } }

(* adjacency.get(u) || []                                                   *)
neighborsOf(u) == IF mapHas(adjacency, u) THEN adjacency[u] ELSE <<>>

(* Variant: any key not yet visited is followed.                            *)
traversableUnchecked(next, seen) == ~setHas(seen, next)

(* Variant: an existing key is followed whether or not it was visited.      *)
traversableRevisiting(next, seen) == setHas(allNodes, next)

traversable(next, seen) == setHas(allNodes, next) /\ ~setHas(seen, next)

(* Variant: only the first neighbor of a node is followed.                  *)
visitFirstNeighbor(neighbors, seen, pending) ==
  IF neighbors # <<>> /\ traversable(Head(neighbors), seen)
  THEN [visited |-> Append(seen, Head(neighbors)),
        queue |-> Append(pending, Head(neighbors))]
  ELSE [visited |-> seen, queue |-> pending]

RECURSIVE visitNeighbors(_, _, _)
visitNeighbors(neighbors, seen, pending) ==
  IF neighbors = <<>>
  THEN [visited |-> seen, queue |-> pending]
  ELSE IF traversable(Head(neighbors), seen)
       THEN visitNeighbors(Tail(neighbors), Append(seen, Head(neighbors)),
                           Append(pending, Head(neighbors)))
       ELSE visitNeighbors(Tail(neighbors), seen, pending)

Issue(code, pathExample, scc, message) ==
  [code |-> code, pathExample |-> pathExample, scc |-> scc, message |-> message]

entryMissingIssue(entryUid) ==
  Issue("UNREACHABLE", <<>>, Undefined,
        <<"Entry node ">> \o entryUid \o <<" does not exist.">>)

unreachableIssue(u) ==
  LET p == parseUid(u) IN
  Issue("UNREACHABLE", <<p.nodeId>>, Undefined,
        <<"Node ">> \o p.knotId \o <<".">> \o p.nodeId
          \o <<" is unreachable from start.">>)

deadEndIssue(u) ==
  LET p == parseUid(u) IN
  Issue("DEAD_END", <<p.nodeId>>, Undefined,
        <<"Node ">> \o p.knotId \o <<".">> \o p.nodeId
          \o <<" is a dead end (no choices and not an ending).">>)

(* Variant: a node with an ending marker is not reported.                   *)
isUnreachableUnlessEnding(u) == ~setHas(visited, u) /\ u \notin terminalNodes

isUnreachable(u) == ~setHas(visited, u)

unreachableIssues ==
  LET missed == SelectSeq(allNodes, isUnreachable)
  IN  [i \in 1..Len(missed) |-> unreachableIssue(missed[i])]

(* Variant: a node that was not visited is asked as well.                   *)
isDeadEndAnywhere(u) == Len(neighborsOf(u)) = 0 /\ u \notin terminalNodes

(* Variant: a node with an ending marker is reported as well.               *)
isDeadEndIgnoringEnding(u) == setHas(visited, u) /\ Len(neighborsOf(u)) = 0

isDeadEnd(u) ==
  setHas(visited, u) /\ Len(neighborsOf(u)) = 0 /\ u \notin terminalNodes

deadEndIssues ==
  LET dead == SelectSeq(allNodes, isDeadEnd)
  IN  [i \in 1..Len(dead) |-> deadEndIssue(dead[i])]

(* Variant: later findings are put in front of the earlier ones.            *)
pushIssuesInFront(list, found) == found \o list

pushIssues(list, found) == list \o found

(* Variant: the list of a call starts from what an earlier call left.       *)
newIssuesKept(left) == left

(* const issues = [] of each call                                           *)
newIssues(left) == <<>>

tarjanUnstarted ==
  /\ reachableNodes' = <<>>
  /\ cursor' = 1
  /\ index' = 0
  /\ indices' = <<>>
  /\ lowLink' = <<>>
  /\ stack' = <<>>
  /\ onStack' = {}
  /\ sccs' = <<>>
  /\ frames' = <<>>

tarjanVars ==
  <<reachableNodes, cursor, index, indices, lowLink, stack, onStack, sccs, frames>>

graphVars == <<adjacency, allNodes, terminalNodes>>

(* Lines 45-88: the call starts, builds the graph and declares the          *)
(* traversal's locals.                                                      *)
analyzeStory ==
  /\ pc \in {"idle", "done", "threw"}
  /\ pc' = "entry"
  /\ previous' = returned
  /\ returned' = Undefined
  /\ issues' = newIssues(issues)
  /\ allNodes' = buildAllNodes(nodeEntries)
  /\ adjacency' = buildAdjacency(nodeEntries)
  /\ terminalNodes' = buildTerminalNodes(nodeEntries)
  /\ visited' = <<>>
  /\ queue' = <<>>
  /\ tarjanUnstarted
  /\ UNCHANGED <<story, runtimeVars>>

(* Lines 90-100: the entry key is computed and looked up.                   *)
checkEntry ==
  /\ pc = "entry"
  /\ IF story.entryKnot \notin DOMAIN story.knots
     THEN /\ pc' = "threw"
          /\ returned' = Def(Throw("TypeError"))
          /\ UNCHANGED <<issues, visited, queue>>
     ELSE LET entryUid == uId(story.entryKnot, story.knots[story.entryKnot].entryNode) IN
          /\ pc' = "bfs"
          /\ UNCHANGED returned
          /\ IF setHas(allNodes, entryUid)
             THEN /\ queue' = Append(queue, entryUid)
                  /\ visited' = setAdd(visited, entryUid)
                  /\ UNCHANGED issues
             ELSE /\ issues' = pushIssues(issues, <<entryMissingIssue(entryUid)>>)
                  /\ UNCHANGED <<visited, queue>>
  /\ UNCHANGED <<story, runtimeVars, graphVars, tarjanVars, previous>>

(* Lines 102-113: one turn of the while loop.                               *)
bfsStep ==
  /\ pc = "bfs"
  /\ queue # <<>>
  /\ LET r == visitNeighbors(neighborsOf(Head(queue)), visited, Tail(queue)) IN
       /\ visited' = r.visited
       /\ queue' = r.queue
  /\ UNCHANGED <<story, runtimeVars, graphVars, tarjanVars, pc, issues,
                 returned, previous>>

(* Lines 115-124.                                                           *)
reportUnreachable ==
  /\ pc = "bfs"
  /\ queue = <<>>
  /\ pc' = "deadEnds"
  /\ issues' = pushIssues(issues, unreachableIssues)
  /\ UNCHANGED <<story, runtimeVars, graphVars, tarjanVars, visited, queue,
                 returned, previous>>

(* Lines 126-155: the dead ends, then the locals of the component search.   *)
reportDeadEnds ==
  /\ pc = "deadEnds"
  /\ pc' = "tarjan"
  /\ issues' = pushIssues(issues, deadEndIssues)
  /\ reachableNodes' = visited
  /\ cursor' = 1
  /\ index' = 0
  /\ indices' = <<>>
  /\ lowLink' = <<>>
  /\ stack' = <<>>
  /\ onStack' = {}
  /\ sccs' = <<>>
  /\ frames' = <<>>
  /\ UNCHANGED <<story, runtimeVars, graphVars, visited, queue, returned, previous>>

(* Variant: a low-link is never lowered.                                    *)
MinIgnored(a, b) == a

Min(a, b) == IF a <= b THEN a ELSE b

(* Variant: the counter is not advanced after it was handed out.            *)
enterStrongConnectSameIndex(v, callers) ==
  /\ indices' = mapSet(indices, v, index)
  /\ lowLink' = mapSet(lowLink, v, index)
  /\ index' = index
  /\ stack' = Append(stack, v)
  /\ onStack' = onStack \cup {v}
  /\ frames' = Append(callers, [v |-> v, i |-> 1])

(* Lines 158-162: strongConnect(v) is entered from the frames `callers`.    *)
enterStrongConnect(v, callers) ==
  /\ indices' = mapSet(indices, v, index)
  /\ lowLink' = mapSet(lowLink, v, index)
  /\ index' = index + 1
  /\ stack' = Append(stack, v)
  /\ onStack' = onStack \cup {v}
  /\ frames' = Append(callers, [v |-> v, i |-> 1])

(* The innermost call moves on to its next neighbor.                        *)
advance(callers) ==
  [callers EXCEPT ![Len(callers)].i = callers[Len(callers)].i + 1]

(* Lines 188-192: one turn of the loop over reachableNodes.                 *)
nextRoot ==
  /\ pc = "tarjan"
  /\ cursor <= Len(reachableNodes)
  /\ cursor' = cursor + 1
  /\ IF mapHas(indices, reachableNodes[cursor])
     THEN UNCHANGED <<pc, index, indices, lowLink, stack, onStack, frames>>
     ELSE /\ pc' = "strongConnect"
          /\ enterStrongConnect(reachableNodes[cursor], frames)
  /\ UNCHANGED <<story, runtimeVars, graphVars, visited, queue, issues,
                 reachableNodes, sccs, returned, previous>>

(* Lines 165-173: the innermost call looks at one neighbor.                 *)
strongConnectStep ==
  /\ pc = "strongConnect"
  /\ LET top == frames[Len(frames)]
         v == top.v
         neighbors == neighborsOf(v)
     IN  /\ top.i <= Len(neighbors)
         /\ LET w == neighbors[top.i] IN
            IF ~setHas(visited, w)
            THEN /\ frames' = advance(frames)
                 /\ UNCHANGED <<index, indices, lowLink, stack, onStack>>
            ELSE IF ~mapHas(indices, w)
                 THEN enterStrongConnect(w, frames)
                 ELSE /\ frames' = advance(frames)
                      /\ lowLink' = IF w \in onStack
                                    THEN mapSet(lowLink, v, Min(lowLink[v], indices[w]))
                                    ELSE lowLink
                      /\ UNCHANGED <<index, indices, stack, onStack>>
  /\ UNCHANGED <<story, runtimeVars, graphVars, visited, queue, issues, pc,
                 reachableNodes, cursor, sccs, returned, previous>>

(* Variant: only the top of the stack is taken off.                         *)
popComponentOnce(stk, v, scc) ==
  [scc |-> Append(scc, stk[Len(stk)]), stack |-> SubSeq(stk, 1, Len(stk) - 1)]

(* Lines 179-183: do { w = stack.pop(); scc.push(w) } while (w !== v)       *)
RECURSIVE popComponent(_, _, _)
popComponent(stk, v, scc) ==
  LET w == stk[Len(stk)]
      rest == SubSeq(stk, 1, Len(stk) - 1)
  IN  IF w = v
      THEN [scc |-> Append(scc, w), stack |-> rest]
      ELSE popComponent(rest, v, Append(scc, w))

(* Lines 176-186 and 170: the innermost call has seen all its neighbors,    *)
(* closes its component if it is a root, and returns to its caller.         *)
strongConnectReturn ==
  /\ pc = "strongConnect"
  /\ LET top == frames[Len(frames)]
         v == top.v
         callers == SubSeq(frames, 1, Len(frames) - 1)
         popped == popComponent(stack, v, <<>>)
     IN  /\ top.i > Len(neighborsOf(v))
         /\ IF lowLink[v] = indices[v]
            THEN /\ stack' = popped.stack
                 /\ onStack' = onStack \ {popped.scc[i] : i \in 1..Len(popped.scc)}
                 /\ sccs' = Append(sccs, popped.scc)
            ELSE UNCHANGED <<stack, onStack, sccs>>
         /\ IF callers = <<>>
            THEN /\ pc' = "tarjan"
                 /\ frames' = callers
                 /\ UNCHANGED lowLink
            ELSE LET caller == callers[Len(callers)].v IN
                 /\ UNCHANGED pc
                 /\ frames' = advance(callers)
                 /\ lowLink' = mapSet(lowLink, caller,
                                      Min(lowLink[caller], lowLink[v]))
  /\ UNCHANGED <<story, runtimeVars, graphVars, visited, queue, issues,
                 reachableNodes, cursor, index, indices, returned, previous>>

(* Variant: a single node with an edge to itself is not taken for a loop.   *)
isLoopIgnoringSelfEdge(scc) == Len(scc) > 1

isLoop(scc) == Len(scc) > 1 \/ setHas(neighborsOf(scc[1]), scc[1])

(* Variant: only the first member is asked for an ending.                   *)
hasEndingFirstOnly(scc) == scc[1] \in terminalNodes

hasEnding(scc) == \E i \in 1..Len(scc) : scc[i] \in terminalNodes

(* Variant: only an edge to an existing node counts as a way out.           *)
canEscapeToExisting(scc) ==
  \E i \in 1..Len(scc) :
    \E j \in 1..Len(neighborsOf(scc[i])) :
      /\ ~setHas(scc, neighborsOf(scc[i])[j])
      /\ setHas(allNodes, neighborsOf(scc[i])[j])

canEscape(scc) ==
  \E i \in 1..Len(scc) :
    \E j \in 1..Len(neighborsOf(scc[i])) : ~setHas(scc, neighborsOf(scc[i])[j])

isInescapable(scc) == isLoop(scc) /\ ~hasEnding(scc) /\ ~canEscape(scc)

RECURSIVE join(_, _)
join(parts, separator) ==
  IF parts = <<>>
  THEN <<>>
  ELSE IF Len(parts) = 1
       THEN parts[1]
       ELSE parts[1] \o <<separator>> \o join(Tail(parts), separator)

(* Variant: as for the other kinds, the example path is one node only.      *)
loopIssueRootOnly(scc) ==
  LET nodeIds == [i \in 1..Len(scc) |-> parseUid(scc[i]).nodeId]
      names == [i \in 1..Len(scc) |->
                  parseUid(scc[i]).knotId \o <<".">> \o parseUid(scc[i]).nodeId]
  IN  Issue("INESCAPABLE_LOOP", <<nodeIds[1]>>, Def(nodeIds),
            <<"Inescapable loop detected involving nodes: ">> \o join(names, ", "))

loopIssue(scc) ==
  LET nodeIds == [i \in 1..Len(scc) |-> parseUid(scc[i]).nodeId]
      names == [i \in 1..Len(scc) |->
                  parseUid(scc[i]).knotId \o <<".">> \o parseUid(scc[i]).nodeId]
  IN  Issue("INESCAPABLE_LOOP", nodeIds, Def(nodeIds),
            <<"Inescapable loop detected involving nodes: ">> \o join(names, ", "))

loopIssues ==
  LET loops == SelectSeq(sccs, isInescapable)
  IN  [i \in 1..Len(loops) |-> loopIssue(loops[i])]

(* Lines 194-247: the components are classified and the result returned.    *)
classifySccs ==
  /\ pc = "tarjan"
  /\ cursor > Len(reachableNodes)
  /\ pc' = "done"
  /\ issues' = pushIssues(issues, loopIssues)
  /\ returned' = Def(Return([issues |-> issues']))
  /\ UNCHANGED <<story, runtimeVars, graphVars, tarjanVars, visited, queue, previous>>

InitAnalyzer ==
  /\ story \in AnalyzerStories
  /\ options = Undefined
  /\ runtime = "none"
  /\ currentKnotId = NoId
  /\ currentNodeId = NoId
  /\ last = Call("none", Undefined, Undefined, Undefined, Return("none"))
  /\ singleRuntime
  /\ analyzerIdle

NextAnalyzer ==
  \/ analyzeStory
  \/ checkEntry
  \/ bfsStep
  \/ reportUnreachable
  \/ reportDeadEnds
  \/ nextRoot
  \/ strongConnectStep
  \/ strongConnectReturn
  \/ classifySccs

SpecAnalyzer == InitAnalyzer /\ [][NextAnalyzer]_vars

(* analyzeStory is synchronous: once called, its loops run on until it      *)
(* returns or throws.                                                       *)
analyzeStoryRuns ==
  \/ checkEntry
  \/ bfsStep
  \/ reportUnreachable
  \/ reportDeadEnds
  \/ nextRoot
  \/ strongConnectStep
  \/ strongConnectReturn
  \/ classifySccs

(* The stories without ending markers: a marker is read only when the       *)
(* graph is built (line 79) and when issues are reported, never by a loop.  *)
UnmarkedStories ==
  { s \in AnalyzerStories :
      \A k \in DOMAIN s.knots : \A n \in DOMAIN s.knots[k].nodes :
        ~IsDefined(s.knots[k].nodes[n].ending) }

InitAnalyzerFair ==
  /\ story \in UnmarkedStories
  /\ options = Undefined
  /\ runtime = "none"
  /\ currentKnotId = NoId
  /\ currentNodeId = NoId
  /\ last = Call("none", Undefined, Undefined, Undefined, Return("none"))
  /\ singleRuntime
  /\ analyzerIdle

SpecAnalyzerFair ==
  InitAnalyzerFair /\ [][NextAnalyzer]_vars /\ WF_vars(analyzeStoryRuns)

----------------------------------------------------------------------------
(* What the properties of the analyzer read off the story itself: its nodes *)
(* as (knot, node) pairs, the pairs its choices lead to, and what can be    *)
(* reached from its entry.                                                  *)

StoryNodes ==
  UNION { { <<k, n>> : n \in DOMAIN story.knots[k].nodes } : k \in DOMAIN story.knots }

Key(p) == <<p[1], ":", p[2]>>

Elements(s) == { s[i] : i \in 1..Len(s) }

Edges(p) ==
  IF p \in StoryNodes
  THEN LET choices == ChoicesOf(NodeAt(p[1], p[2])) IN
       { << IF IsDefined(choices[i].target.knot)
            THEN choices[i].target.knot[1]
            ELSE p[1],
            choices[i].target.node >> : i \in 1..Len(choices) }
  ELSE {}

RECURSIVE ReachFrom(_)
ReachFrom(S) ==
  LET T == S \cup { q \in StoryNodes : \E p \in S : q \in Edges(p) }
  IN  IF T = S THEN S ELSE ReachFrom(T)

EntryKnotExists == story.entryKnot \in DOMAIN story.knots

EntryExists ==
  /\ EntryKnotExists
  /\ <<story.entryKnot, story.knots[story.entryKnot].entryNode>> \in StoryNodes

Reachable ==
  IF EntryExists
  THEN ReachFrom({<<story.entryKnot, story.knots[story.entryKnot].entryNode>>})
  ELSE {}

HasEnding(p) == IsDefined(NodeAt(p[1], p[2]).ending)

IssuesOf(code) == { i \in 1..Len(issues) : issues[i].code = code }

UnreachableNaming(p) ==
  { i \in IssuesOf("UNREACHABLE") :
      issues[i].message = <<"Node ", p[1], ".", p[2], " is unreachable from start.">> }

DeadEndNaming(p) ==
  { i \in IssuesOf("DEAD_END") :
      issues[i].message =
        <<"Node ", p[1], ".", p[2], " is a dead end (no choices and not an ending).">> }

EntryMissingIssues ==
  { i \in IssuesOf("UNREACHABLE") :
      /\ issues[i].pathExample = <<>>
      /\ issues[i].message =
           <<"Entry node ", story.entryKnot, ":",
             story.knots[story.entryKnot].entryNode, " does not exist.">> }

UnreachableReported == pc \in {"deadEnds", "tarjan", "strongConnect", "done"}

DeadEndsReported == pc \in {"tarjan", "strongConnect", "done"}

(* C12: the visited keys are keys of allNodes, and once the unreachable     *)
(* nodes have been reported every key of allNodes that was not visited is   *)
(* named by exactly one UNREACHABLE issue and no visited key by any.        *)
C12_UnreachableAreTheUnvisited ==
  /\ Elements(visited) \subseteq Elements(allNodes)
  /\ UnreachableReported =>
       \A p \in StoryNodes :
         /\ Key(p) \in Elements(allNodes)
         /\ Cardinality(UnreachableNaming(p)) =
              IF Key(p) \in Elements(visited) THEN 0 ELSE 1

(* A finished run that visited two nodes and left one unvisited.            *)
C12_Witness ==
  /\ pc = "done"
  /\ Len(visited) >= 2
  /\ \E p \in StoryNodes :
       /\ Key(p) \notin Elements(visited)
       /\ Cardinality(UnreachableNaming(p)) = 1

(* C13: when the entry knot or the entry node is missing, analyzeStory does *)
(* not throw: it returns a result with an UNREACHABLE issue naming the      *)
(* missing entry, visits nothing, and reports no DEAD_END and no            *)
(* INESCAPABLE_LOOP.                                                        *)
C13_MissingEntryIsReported ==
  (~EntryExists /\ pc \in {"done", "threw"}) =>
    /\ IsDefined(returned)
    /\ ~returned[1].threw
    /\ returned[1].value.issues = issues
    /\ EntryMissingIssues # {}
    /\ visited = <<>>
    /\ IssuesOf("DEAD_END") = {}
    /\ IssuesOf("INESCAPABLE_LOOP") = {}

(* The half of C13 the code keeps: an entry knot that exists and names a    *)
(* missing entry node.                                                      *)
C13_MissingEntryNodeIsReported ==
  (EntryKnotExists /\ ~EntryExists /\ pc \in {"done", "threw"}) =>
    /\ IsDefined(returned)
    /\ ~returned[1].threw
    /\ EntryMissingIssues # {}
    /\ visited = <<>>
    /\ IssuesOf("DEAD_END") = {}
    /\ IssuesOf("INESCAPABLE_LOOP") = {}

(* C14: a DEAD_END issue is reported for a key exactly when the key can be  *)
(* reached from the entry, has no outgoing edge and has no ending marker;   *)
(* each such key gets exactly one, an unreachable key none.                 *)
C14_DeadEndsAreReachableChoicelessNonEndings ==
  DeadEndsReported =>
    /\ \A p \in StoryNodes :
         Cardinality(DeadEndNaming(p)) =
           IF p \in Reachable /\ Edges(p) = {} /\ ~HasEnding(p) THEN 1 ELSE 0
    /\ IssuesOf("DEAD_END") = UNION { DeadEndNaming(p) : p \in StoryNodes }

(* A finished run with a reported dead end, an ending that is not reported  *)
(* and an unreachable node without choices that is not reported either.     *)
C14_Witness ==
  /\ pc = "done"
  /\ \E p \in Reachable : Cardinality(DeadEndNaming(p)) = 1
  /\ \E p \in Reachable : Edges(p) = {} /\ HasEnding(p)
  /\ \E p \in StoryNodes \ Reachable : Edges(p) = {} /\ ~HasEnding(p)

(* The strongly connected components of the part of the story that can be   *)
(* reached from the entry, computed from the story's own edges.             *)
TrueComponents ==
  { { q \in Reachable : q \in ReachFrom({p}) /\ p \in ReachFrom({q}) } : p \in Reachable }

(* The members an INESCAPABLE_LOOP issue lists in its message.              *)
LoopMembers(i) ==
  { <<issues[i].message[4 * j - 2], issues[i].message[4 * j]>> :
      j \in 1..(Len(issues[i].message) \div 4) }

Candidate(C) == Cardinality(C) > 1 \/ \E p \in C : p \in Edges(p)

Closed(C) == \A p \in C : Edges(p) \subseteq C

LoopReported(C) == \E i \in IssuesOf("INESCAPABLE_LOOP") : LoopMembers(i) = C

(* C15: a strongly connected component of the reachable part is reported as *)
(* INESCAPABLE_LOOP exactly when it is a candidate loop (more than one      *)
(* member, or a self edge), none of its members has an ending and no edge   *)
(* of a member leads to a key outside the component.                        *)
C15_LoopsAreClosedEndlessComponents ==
  pc = "done" =>
    /\ \A C \in TrueComponents :
         LoopReported(C) <=>
           (Candidate(C) /\ (\A p \in C : ~HasEnding(p)) /\ Closed(C))
    /\ \A i \in IssuesOf("INESCAPABLE_LOOP") : LoopMembers(i) \in TrueComponents

(* A finished run that reports one component and leaves alone another       *)
(* candidate loop, which has a way out.                                     *)
C15_Witness ==
  /\ pc = "done"
  /\ \E C \in TrueComponents : LoopReported(C)
  /\ \E C \in TrueComponents : Candidate(C) /\ ~Closed(C) /\ ~LoopReported(C)

Occurrences(u) ==
  UNION { { <<i, j>> : j \in { k \in 1..Len(sccs[i]) : sccs[i][k] = u } } :
          i \in 1..Len(sccs) }

MainLoopFinished ==
  \/ pc = "done"
  \/ pc = "tarjan" /\ cursor > Len(reachableNodes)

(* C16: when the loop over the reachable nodes has finished, sccs is a      *)
(* partition of the visited keys: every visited key is in exactly one       *)
(* component, no component is empty and none holds a key never visited.     *)
C16_ComponentsPartitionVisited ==
  MainLoopFinished =>
    /\ \A u \in Elements(visited) : Cardinality(Occurrences(u)) = 1
    /\ \A i \in 1..Len(sccs) :
         /\ sccs[i] # <<>>
         /\ Elements(sccs[i]) \subseteq Elements(visited)

(* The loop has finished with a component of two keys beside another one.   *)
C16_Witness ==
  /\ MainLoopFinished
  /\ Len(sccs) >= 2
  /\ \E i \in 1..Len(sccs) : Len(sccs[i]) >= 2

Rank(code) ==
  IF code = "UNREACHABLE" THEN 1 ELSE IF code = "DEAD_END" THEN 2 ELSE 3

(* C17: in the list of issues every UNREACHABLE issue, the one about a      *)
(* missing entry included, comes before every DEAD_END issue, and every     *)
(* DEAD_END issue before every INESCAPABLE_LOOP issue.                      *)
C17_IssuesAreOrderedByKind ==
  \A i, j \in 1..Len(issues) :
    i < j => Rank(issues[i].code) <= Rank(issues[j].code)

(* A returned list that holds all three kinds.                              *)
C17_Witness ==
  /\ pc = "done"
  /\ IssuesOf("UNREACHABLE") # {}
  /\ IssuesOf("DEAD_END") # {}
  /\ IssuesOf("INESCAPABLE_LOOP") # {}
  /\ returned[1].value.issues = issues

(* C18: analyzeStory is deterministic and keeps nothing from one call to    *)
(* the next: a call on the story an earlier call was made on returns an     *)
(* issue list equal to the one the earlier call returned.                   *)
C18_RepeatedAnalysisAgrees ==
  (pc = "done" /\ IsDefined(previous)) =>
    /\ ~previous[1].threw
    /\ returned[1].value.issues = previous[1].value.issues

(* A second call has returned a list of at least two issues.                *)
C18_Witness ==
  /\ pc = "done"
  /\ IsDefined(previous)
  /\ Len(returned[1].value.issues) >= 2

DanglingKeys ==
  { Key(q) : q \in UNION { Edges(p) : p \in StoryNodes } \ StoryNodes }

(* C19: a choice target that names no node never aborts the analysis and    *)
(* never extends what is reachable: its key is never visited, never gets a  *)
(* discovery index and is never a member of a component.                    *)
C19_DanglingTargetsAreSkipped ==
  /\ \A u \in DanglingKeys :
       /\ u \notin Elements(visited)
       /\ u \notin Elements(queue)
       /\ u \notin DOMAIN indices
       /\ u \notin Elements(stack)
       /\ \A i \in 1..Len(sccs) : u \notin Elements(sccs[i])
  /\ pc = "threw" => ~EntryKnotExists

(* A finished run over a story in which a reachable node has a dangling     *)
(* choice target.                                                           *)
C19_Witness ==
  /\ pc = "done"
  /\ sccs # <<>>
  /\ \E p \in Reachable : Edges(p) \ StoryNodes # {}

----------------------------------------------------------------------------
(* A story handed both to createRuntime and to analyzeStory.  Every call is *)
(* synchronous, so a call of the runtime is made while no analyzeStory call *)
(* is under way.                                                            *)

SharedStories ==
  { s \in Stories : Len(ChoicesOf(s.knots["k1"].nodes["a"])) <= 1 }

SharedOptions ==
  { Undefined, Def(RuntimeOptions(Def({"hasKey"}), Def("evaluator"))) }

InitShared ==
  /\ story \in SharedStories
  /\ options \in SharedOptions
  /\ runtime = "none"
  /\ currentKnotId = NoId
  /\ currentNodeId = NoId
  /\ last = Call("none", Undefined, Undefined, Undefined, Return("none"))
  /\ singleRuntime
  /\ analyzerIdle

NextShared ==
  \/ pc \in {"idle", "done", "threw"} /\ Next
  \/ NextAnalyzer

SpecShared == InitShared /\ [][NextShared]_vars

(* C20: neither the runtime nor the analyzer modifies the story: no step of *)
(* either changes it, and getStory() keeps returning the story that was     *)
(* passed in.                                                               *)
C20_StoryIsNeverModified == [][story' = story /\ getStory' = story]_vars

(* The runtime has moved along a choice and an analysis has finished.       *)
C20_Witness ==
  /\ pc = "done"
  /\ Called("choose") /\ Returned /\ ~PositionUnchanged
  /\ getStory = story

----------------------------------------------------------------------------
(* C21: every INESCAPABLE_LOOP issue carries the member list of its         *)
(* component both as pathExample and as scc: the two lists are equal, have  *)
(* one entry per member and hold the node id of every member, and a         *)
(* component is reported by one issue only.                                 *)
C21_LoopIssueListsItsMembers ==
  \A i \in IssuesOf("INESCAPABLE_LOOP") :
    /\ IsDefined(issues[i].scc)
    /\ issues[i].pathExample = issues[i].scc[1]
    /\ LoopMembers(i) \in TrueComponents
    /\ Len(issues[i].pathExample) = Cardinality(LoopMembers(i))
    /\ \A j \in 1..Len(issues[i].pathExample) :
         issues[i].pathExample[j] = <<issues[i].message[4 * j]>>
    /\ \A p \in LoopMembers(i) :
         \E j \in 1..Len(issues[i].pathExample) : issues[i].pathExample[j] = <<p[2]>>
    /\ \A k \in IssuesOf("INESCAPABLE_LOOP") : LoopMembers(k) = LoopMembers(i) => k = i

(* The loop k1.a -> k1.b -> k1.a is the one loop a finished run reports.    *)
C21_Witness ==
  /\ pc = "done"
  /\ Cardinality(IssuesOf("INESCAPABLE_LOOP")) = 1
  /\ \E i \in IssuesOf("INESCAPABLE_LOOP") :
       /\ LoopMembers(i) = {<<"k1", "a">>, <<"k1", "b">>}
       /\ Elements(issues[i].scc[1]) = {<<"a">>, <<"b">>}

TraversalFinished ==
  \/ pc = "bfs" /\ queue = <<>>
  \/ UnreachableReported

(* C22: when the traversal has finished, visited is exactly the set of keys *)
(* that can be reached from the entry key along edges to keys of allNodes:  *)
(* it holds the entry, with a visited key it holds every existing key the   *)
(* key has an edge to, and it holds nothing else.                           *)
C22_VisitedIsTheReachableSet ==
  TraversalFinished =>
    /\ EntryExists =>
         uId(story.entryKnot, story.knots[story.entryKnot].entryNode)
           \in Elements(visited)
    /\ \A v \in Elements(visited) :
         \A j \in 1..Len(neighborsOf(v)) :
           neighborsOf(v)[j] \in Elements(allNodes)
             => neighborsOf(v)[j] \in Elements(visited)
    /\ Elements(visited) = { Key(p) : p \in Reachable }
    /\ Cardinality(Elements(visited)) = Len(visited)

(* A finished traversal that reached a node two edges away from the entry   *)
(* and left another node out.                                               *)
C22_Witness ==
  /\ TraversalFinished
  /\ Len(visited) >= 3
  /\ \E p \in Reachable :
       /\ p \notin Edges(<<story.entryKnot, story.knots[story.entryKnot].entryNode>>)
       /\ p # <<story.entryKnot, story.knots[story.entryKnot].entryNode>>
  /\ StoryNodes \ Reachable # {}

ComponentOf(u) == { i \in 1..Len(sccs) : u \in Elements(sccs[i]) }

MutuallyReachable(p, q) == q \in ReachFrom({p}) /\ p \in ReachFrom({q})

(* C23: the components strongConnect computes are the strongly connected    *)
(* components of the reachable part: two reachable keys are in the same     *)
(* component exactly when each can be reached from the other.               *)
C23_ComponentsAreStronglyConnected ==
  MainLoopFinished =>
    /\ \A p, q \in Reachable :
         (ComponentOf(Key(p)) \cap ComponentOf(Key(q)) # {})
           <=> MutuallyReachable(p, q)
    /\ { Elements(sccs[i]) : i \in 1..Len(sccs) } =
         { { Key(p) : p \in C } : C \in TrueComponents }

(* The search has ended with the cycle k1.a -> k1.b -> k2.a -> k1.a as one  *)
(* component.                                                               *)
C23_Witness ==
  /\ MainLoopFinished
  /\ \E i \in 1..Len(sccs) : Len(sccs[i]) = 3

----------------------------------------------------------------------------
(* C24: when choose or divert fails, for whatever reason, an error raised   *)
(* while the StepResult of the target node is built included, the position  *)
(* is what it was before the call.                                          *)
C24_FailedMoveKeepsPosition ==
  ((Called("choose") \/ Called("divert")) /\ Threw) => PositionUnchanged

(* The part of C24 the code keeps: a call that fails before the target has  *)
(* been verified leaves the position alone.                                 *)
C24_FailureBeforeMoveKeepsPosition ==
  ((Called("choose") \/ Called("divert")) /\ Threw /\ ~MissingResolver)
    => PositionUnchanged

----------------------------------------------------------------------------
EndingReachableFrom(p) == \E q \in ReachFrom({p}) : HasEnding(q)

(* C25: for a story whose entry and whose choice targets all exist, an      *)
(* empty issue list means that from every node reachable from the entry a   *)
(* node with an ending marker can be reached (the node itself included).    *)
C25_NoIssuesMeansEveryPathCanEnd ==
  (pc = "done" /\ issues = <<>> /\ EntryExists /\ DanglingKeys = {}) =>
    \A p \in Reachable : EndingReachableFrom(p)

(* A clean result for a story of three reachable nodes with a loop that has *)
(* a way out to the ending.                                                 *)
C25_Witness ==
  /\ pc = "done"
  /\ returned[1].value.issues = <<>>
  /\ EntryExists
  /\ DanglingKeys = {}
  /\ Cardinality(Reachable) >= 3
  /\ \E C \in TrueComponents : Candidate(C)

ClosedAmongExisting(C) == \A p \in C : (Edges(p) \cap StoryNodes) \subseteq C

(* C26: every reachable candidate loop without a terminal member whose      *)
(* edges to existing nodes all stay inside the component is reported as     *)
(* INESCAPABLE_LOOP, also when a member has a choice whose target does not  *)
(* exist: a dangling edge is not a way out.                                 *)
C26_DanglingEdgeIsNoEscape ==
  pc = "done" =>
    \A C \in TrueComponents :
      (Candidate(C) /\ (\A p \in C : ~HasEnding(p)) /\ ClosedAmongExisting(C))
        => LoopReported(C)

(* The part of C26 the code keeps: such a loop is reported when no member   *)
(* has a dangling choice target.                                            *)
C26_ClosedLoopIsReported ==
  pc = "done" =>
    \A C \in TrueComponents :
      (Candidate(C) /\ (\A p \in C : ~HasEnding(p)) /\ Closed(C))
        => LoopReported(C)

(* C27: a reported loop cannot be left: from no member of the component of  *)
(* an INESCAPABLE_LOOP issue can a node with an ending marker or a node     *)
(* outside the component be reached along choice edges.                     *)
C27_ReportedLoopsCannotBeLeft ==
  \A i \in IssuesOf("INESCAPABLE_LOOP") :
    \A p \in LoopMembers(i) :
      /\ p \in StoryNodes
      /\ ReachFrom({p}) \subseteq LoopMembers(i)
      /\ Edges(p) \subseteq LoopMembers(i)
      /\ \A q \in ReachFrom({p}) : ~HasEnding(q)

(* A reported loop of two members in a story that has an ending elsewhere.  *)
C27_Witness ==
  /\ pc = "done"
  /\ \E i \in IssuesOf("INESCAPABLE_LOOP") : Cardinality(LoopMembers(i)) = 2
  /\ \E p \in StoryNodes : HasEnding(p)

----------------------------------------------------------------------------
InReportedLoop(i) ==
  /\ pc = "done"
  /\ i \in IssuesOf("INESCAPABLE_LOOP")
  /\ <<currentKnotId, currentNodeId>> \in LoopMembers(i)

(* C28: once the position of a runtime is a member of a component that      *)
(* analyzeStory reports as INESCAPABLE_LOOP for the same story, every call  *)
(* other than divert leaves the position inside that component, and no      *)
(* StepResult returned by such a call has an ending.                        *)
C28_ReportedLoopTrapsRuntime ==
  [][ \A i \in 1..Len(issues) :
        (InReportedLoop(i) /\ pc' = "done" /\ last'.op # "divert") =>
          /\ <<currentKnotId', currentNodeId'>> \in LoopMembers(i)
          /\ (last' # last /\ ~last'.ret.threw)
               => ~IsDefined(last'.ret.value.ending) ]_vars

(* A choose made from inside a reported loop has returned.                  *)
C28_Witness ==
  /\ Called("choose") /\ Returned
  /\ \E i \in 1..Len(issues) :
       /\ InReportedLoop(i)
       /\ <<last.pre.knotId, last.pre.nodeId>> \in LoopMembers(i)

----------------------------------------------------------------------------
(* A runtime that is only ever moved by choose, next to analyzeStory calls  *)
(* on the same story.                                                       *)

InitChoose ==
  /\ story \in Stories
  /\ options \in SharedOptions
  /\ runtime = "none"
  /\ currentKnotId = NoId
  /\ currentNodeId = NoId
  /\ last = Call("none", Undefined, Undefined, Undefined, Return("none"))
  /\ singleRuntime
  /\ analyzerIdle

NextChoose ==
  \/ /\ pc \in {"idle", "done", "threw"}
     /\ \/ createRuntime
        \/ \E state \in States : current(state)
        \/ \E choiceId \in ChooseIds, state \in States : choose(choiceId, state)
  \/ NextAnalyzer

SpecChoose == InitChoose /\ [][NextChoose]_vars

(* C29: the runtime and the analyzer agree on what can be reached: after    *)
(* construction and any number of choose calls the position is a node that  *)
(* the traversal of analyzeStory on the same story has visited, never one   *)
(* it reports as UNREACHABLE.                                               *)
C29_PositionIsVisitedByAnalyzer ==
  (runtime = "live" /\ pc = "done") =>
    /\ Key(<<currentKnotId, currentNodeId>>) \in Elements(visited)
    /\ UnreachableNaming(<<currentKnotId, currentNodeId>>) = {}

(* The part of C29 the code keeps: the same for a story whose entry node    *)
(* exists.                                                                  *)
C29_PositionIsVisitedWhenEntryExists ==
  (runtime = "live" /\ pc = "done" /\ EntryExists) =>
    /\ Key(<<currentKnotId, currentNodeId>>) \in Elements(visited)
    /\ UnreachableNaming(<<currentKnotId, currentNodeId>>) = {}

----------------------------------------------------------------------------
(* Stories whose identifiers may contain the separator: knot k1 with the    *)
(* nodes a and `second`, a knot `other` with the node b, and up to two      *)
(* choices on k1.a.                                                         *)

MakeKeyStory(second, other, targets) ==
  [ version |-> 1,
    entryKnot |-> "k1",
    knots |->
      ("k1" :> [ id |-> "k1",
                 entryNode |-> "a",
                 nodes |-> ("a" :> Node("a", Undefined, Undefined,
                                        AnalyzerChoices(targets), Undefined,
                                        Undefined))
                           @@ (second :> BareNode(second)) ])
      @@ (other :> [ id |-> other,
                     entryNode |-> "b",
                     nodes |-> ("b" :> BareNode("b")) ]) ]

KeyTargetLists(second, other) ==
  UNION { [1..n -> { Target(Undefined, second), Target(Def(other), "b") }] :
          n \in 0..2 }

KeyStories ==
  UNION { { MakeKeyStory(ids[1], ids[2], targets) :
              targets \in KeyTargetLists(ids[1], ids[2]) } :
          ids \in {"b", "a:b"} \X {"k2", "k1:a"} }

InitKeys ==
  /\ story \in KeyStories
  /\ options = Undefined
  /\ runtime = "none"
  /\ currentKnotId = NoId
  /\ currentNodeId = NoId
  /\ last = Call("none", Undefined, Undefined, Undefined, Return("none"))
  /\ singleRuntime
  /\ analyzerIdle

SpecKeys == InitKeys /\ [][NextAnalyzer]_vars

KeysRoundTrip ==
  /\ \A p, q \in StoryNodes : uId(p[1], p[2]) = uId(q[1], q[2]) => p = q
  /\ \A p \in StoryNodes :
       parseUid(uId(p[1], p[2])) = [knotId |-> Tokens(p[1]), nodeId |-> Tokens(p[2])]

(* C30: node keys are injective and round-trip: two different (knot, node)  *)
(* pairs never get the same key, and parsing the key built from (k, n)      *)
(* gives back (k, n), also for identifiers that contain ':'.                *)
C30_KeysAreInjectiveAndRoundTrip == KeysRoundTrip

(* The part of C30 the code keeps: the same for identifiers without ':'.    *)
C30_ColonFreeKeysRoundTrip ==
  (\A p \in StoryNodes : Len(Tokens(p[1])) = 1 /\ Len(Tokens(p[2])) = 1)
    => KeysRoundTrip

----------------------------------------------------------------------------
AllResolversRegistered(choices) ==
  \A i \in 1..Len(choices) :
    IsDefined(choices[i].condition) => ResolverRegistered(choices[i].condition[1])

(* choose(id, state) made now gets past the lookup of the choice and past   *)
(* the check of its condition.                                              *)
Choosable(id, state) ==
  LET ret == chooseResult(id, state).ret IN
  ~(ret.threw /\ ret.error \in {"Choice not found", "Choice not available"})

(* C31: visible and choosable agree: at a node whose conditions all have a  *)
(* registered resolver, a choice id is among the choices current(state)     *)
(* returned exactly when choose of that id with the same state fails        *)
(* neither with choice-not-found nor with condition-unmet.                  *)
C31_VisibleIffChoosable ==
  (Called("current") /\ PreExists /\ AllResolversRegistered(ChoicesOf(PreNode))) =>
    /\ Returned
    /\ \A id \in ChooseIds \cup {ChoicesOf(PreNode)[i].id : i \in 1..Len(ChoicesOf(PreNode))} :
         (\E i \in 1..Len(last.ret.value.choices) : last.ret.value.choices[i].id = id)
           <=> Choosable(id, last.state[1])

(* current has returned one of two conditioned choices of the node, the     *)
(* other being hidden.                                                      *)
C31_Witness ==
  /\ Called("current") /\ Returned /\ PreExists
  /\ AllResolversRegistered(ChoicesOf(PreNode))
  /\ Len(ChoicesOf(PreNode)) = 2
  /\ \A i \in 1..2 : IsDefined(ChoicesOf(PreNode)[i].condition)
  /\ Len(last.ret.value.choices) = 1
  /\ Choosable(last.ret.value.choices[1].id, last.state[1])

----------------------------------------------------------------------------
LoopsNaming(p) == { i \in IssuesOf("INESCAPABLE_LOOP") : p \in LoopMembers(i) }

NamedNodes ==
  StoryNodes \cup UNION { LoopMembers(i) : i \in IssuesOf("INESCAPABLE_LOOP") }

(* C32: the three kinds of issue are disjoint over node keys: no key is     *)
(* reported UNREACHABLE and DEAD_END, none UNREACHABLE and member of an     *)
(* INESCAPABLE_LOOP, none DEAD_END and member of an INESCAPABLE_LOOP, and   *)
(* none is a member of two INESCAPABLE_LOOP issues.                         *)
C32_IssueKindsAreDisjoint ==
  \A p \in NamedNodes :
    /\ UnreachableNaming(p) = {} \/ DeadEndNaming(p) = {}
    /\ UnreachableNaming(p) = {} \/ LoopsNaming(p) = {}
    /\ DeadEndNaming(p) = {} \/ LoopsNaming(p) = {}
    /\ Cardinality(LoopsNaming(p)) <= 1

(* A result that names one node unreachable, another a dead end and a third *)
(* the member of a loop.                                                    *)
C32_Witness ==
  /\ pc = "done"
  /\ \E p, q, r \in StoryNodes :
       /\ UnreachableNaming(p) # {}
       /\ DeadEndNaming(q) # {}
       /\ LoopsNaming(r) # {}
       /\ Edges(p) = {} /\ ~HasEnding(p)

----------------------------------------------------------------------------
(* C37: Tarjan's bookkeeping is consistent at every step: the indices come  *)
(* from a strictly increasing counter, so no two nodes share one; the       *)
(* lowLink of every discovered node is at most its index; onStack holds     *)
(* exactly the keys on the stack; and the stack is empty whenever no        *)
(* top-level strongConnect call is running.                                 *)
C37_TarjanBookkeeping ==
  /\ DOMAIN lowLink = DOMAIN indices
  /\ \A v \in DOMAIN indices : indices[v] \in 0..(index - 1)
  /\ \A v, w \in DOMAIN indices : indices[v] = indices[w] => v = w
  /\ \A v \in DOMAIN indices : lowLink[v] <= indices[v]
  /\ onStack = Elements(stack)
  /\ Cardinality(onStack) = Len(stack)
  /\ pc # "strongConnect" => stack = <<>> /\ frames = <<>>

(* Inside a nested call: two keys on the stack, the later one with a        *)
(* lowLink below its index, after an earlier component was closed.          *)
C37_Witness ==
  /\ pc = "strongConnect"
  /\ Len(stack) >= 2
  /\ Len(sccs) >= 1
  /\ \E v \in DOMAIN indices : v \in onStack /\ lowLink[v] < indices[v]

(* Between two top-level calls: some keys discovered, the stack empty and   *)
(* a further root still to come.                                            *)
C37_WitnessBetweenRoots ==
  /\ pc = "tarjan"
  /\ index >= 2
  /\ stack = <<>>
  /\ cursor <= Len(reachableNodes)

----------------------------------------------------------------------------
NoResolvers ==
  \/ ~IsDefined(options)
  \/ ~IsDefined(options[1].conditionHooks) /\ ~IsDefined(options[1].expressionEvaluator)

Unconditioned(choices) ==
  \A i \in 1..Len(choices) : ~IsDefined(choices[i].condition)

ConditionedElsewhere ==
  \E p \in StoryNodes : ~Unconditioned(ChoicesOf(NodeAt(p[1], p[2])))

(* C35: a runtime created without conditionHooks and without an             *)
(* expressionEvaluator never fails for a missing resolver in current,       *)
(* choose or divert, as long as the choice taken and every choice of the    *)
(* node whose StepResult is built carry no condition, whatever conditions   *)
(* the other nodes of the story have.                                       *)
C35_NoResolverNeededWithoutConditions ==
  NoResolvers =>
    /\ (Called("current")
         /\ (PreExists => Unconditioned(ChoicesOf(PreNode))))
       => ~MissingResolver
    /\ (Called("choose")
         /\ ((PreExists /\ Requested # {}) =>
               /\ ~IsDefined(Chosen.condition)
               /\ NamedExists(Chosen.target) =>
                    Unconditioned(ChoicesOf(NodeAt(NamedKnot(Chosen.target),
                                                   Chosen.target.node)))))
       => ~MissingResolver
    /\ (Called("divert")
         /\ (NamedExists(last.to[1]) =>
               Unconditioned(ChoicesOf(NodeAt(NamedKnot(last.to[1]), last.to[1].node)))))
       => ~MissingResolver

(* An unconditioned choice taken to a node without conditions, in a story   *)
(* that has a conditioned choice at another node, no resolver registered.   *)
C35_Witness ==
  /\ NoResolvers
  /\ Called("choose") /\ Returned
  /\ PreExists /\ Requested # {}
  /\ ~IsDefined(Chosen.condition)
  /\ ConditionedElsewhere

----------------------------------------------------------------------------
(* The StepResult a divert to the node the runtime is at would return.      *)
DivertToSelf(state) ==
  divertResult(Target(Def(currentKnotId), currentNodeId), state).ret

(* C36: current is repeatable: after a current(state) that returned, a      *)
(* further current(state) returns an equal StepResult; its effects are the  *)
(* current node's own effect if the node defines one (whatever the value)   *)
(* and never a choice's effect; and it equals the StepResult a divert to    *)
(* that same node would return.                                             *)
C36_CurrentIsRepeatable ==
  (Called("current") /\ Returned) =>
    /\ PositionUnchanged
    /\ currentResult(last.state[1]).ret = last.ret
    /\ last.ret.value.effects = DefinedEffect(PreNode.effect)
    /\ DivertToSelf(last.state[1]) = last.ret

(* The same with the effect present exactly when it is truthy, as the code  *)
(* tests it.                                                                *)
C36_CurrentIsRepeatableForTruthyEffects ==
  (Called("current") /\ Returned) =>
    /\ PositionUnchanged
    /\ currentResult(last.state[1]).ret = last.ret
    /\ last.ret.value.effects = effectList(PreNode.effect)
    /\ DivertToSelf(last.state[1]) = last.ret

(* current at a node that has a truthy effect of its own.                   *)
C36_Reached ==
  /\ Called("current") /\ Returned
  /\ IsDefined(PreNode.effect)
  /\ last.ret.value.effects = <<PreNode.effect[1]>>

----------------------------------------------------------------------------
(* The keys a step puts on the BFS queue.                                   *)
Enqueued ==
  IF pc = "bfs" /\ queue # <<>>
  THEN SubSeq(queue', Len(queue), Len(queue'))
  ELSE queue'

(* A key is put on the queue only when it was not visited before, and is    *)
(* visited from then on.                                                    *)
EnqueuedAtMostOnce ==
  /\ \A i \in 1..Len(Enqueued) :
       /\ Enqueued[i] \notin Elements(visited)
       /\ Enqueued[i] \in Elements(visited')
       /\ \A j \in 1..Len(Enqueued) : Enqueued[i] = Enqueued[j] => i = j
  /\ pc = "bfs" => Elements(visited) \subseteq Elements(visited')

(* strongConnect is entered only for a visited key without an index, which  *)
(* has one from then on.                                                    *)
ConnectedAtMostOnce ==
  /\ Len(frames') > Len(frames) =>
       LET v == frames'[Len(frames')].v IN
         /\ Len(frames') = Len(frames) + 1
         /\ v \in Elements(visited)
         /\ v \notin DOMAIN indices
         /\ v \in DOMAIN indices'
  /\ pc = "strongConnect" => DOMAIN indices \subseteq DOMAIN indices'

Cyclic(u) == \E i \in 1..Len(sccs) : Len(sccs[i]) > 1 /\ setHas(sccs[i], u)

SelfEdge(u) == setHas(neighborsOf(u), u)

DuplicateEdge(u) ==
  \E i, j \in 1..Len(neighborsOf(u)) : i # j /\ neighborsOf(u)[i] = neighborsOf(u)[j]

DanglingEdge(u) ==
  \E i \in 1..Len(neighborsOf(u)) : ~setHas(allNodes, neighborsOf(u)[i])

(* C33: analyzeStory terminates on every finite story, with cycles, self    *)
(* edges, duplicate edges and dangling targets: a call that has started     *)
(* returns or throws; the BFS puts each key on its queue at most once, so   *)
(* the queue empties; and strongConnect is entered at most once for each    *)
(* reachable key.                                                           *)
C33_AnalysisTerminates ==
  /\ (pc = "entry") ~> (pc \in {"done", "threw"})
  /\ (pc = "bfs") ~> (pc = "bfs" /\ queue = <<>>)
  /\ [][EnqueuedAtMostOnce /\ ConnectedAtMostOnce]_vars

(* A call that has returned on a story whose reachable part has a cycle     *)
(* entered through a duplicate edge.                                        *)
C33_Witness ==
  /\ pc = "done"
  /\ \E u \in Elements(visited) : Cyclic(u) /\ DuplicateEdge(u)

(* A call that has returned on a story whose reachable part has a self edge *)
(* and a dangling target.                                                   *)
C33_WitnessSelfEdgeAndDangling ==
  /\ pc = "done"
  /\ \E u \in Elements(visited) : SelfEdge(u)
  /\ \E u \in Elements(visited) : DanglingEdge(u)

----------------------------------------------------------------------------
(* Two runtimes created on one story object.                                *)

(* The caller turns from one runtime to the other.                          *)
switchRuntime ==
  /\ runtime' = resting.runtime
  /\ currentKnotId' = resting.knotId
  /\ currentNodeId' = resting.nodeId
  /\ resting' = Closure(runtime, currentKnotId, currentNodeId)
  /\ active' = 3 - active
  /\ UNCHANGED <<story, options, last, analyzerVars>>

InitTwo ==
  /\ story \in SharedStories
  /\ options \in SharedOptions
  /\ runtime = "none"
  /\ currentKnotId = NoId
  /\ currentNodeId = NoId
  /\ last = Call("none", Undefined, Undefined, Undefined, Return("none"))
  /\ singleRuntime
  /\ analyzerIdle

NextTwo ==
  \/ Next
  \/ switchRuntime

SpecTwo == InitTwo /\ [][NextTwo]_vars

(* getPosition() of the first or the second runtime.                        *)
PositionOf(i) ==
  IF i = active
  THEN getPosition
  ELSE [knotId |-> resting.knotId, nodeId |-> resting.nodeId]

CreatedOf(i) == IF i = active THEN runtime ELSE resting.runtime

(* The step is a call of a method of runtime i.                             *)
CallOn(i) == active = i /\ active' = i

(* C34: two runtimes that share one story are independent: the Position of  *)
(* each changes only in a call made on that runtime, and a call on one      *)
(* never changes the Position, or the existence, of the other.              *)
C34_RuntimesAreIndependent ==
  [][\A i \in {1, 2} :
       /\ PositionOf(i)' # PositionOf(i) => CallOn(i)
       /\ CreatedOf(i)' # CreatedOf(i) => CallOn(i)
       /\ CallOn(3 - i) => PositionOf(i)' = PositionOf(i)]_vars

(* The second runtime has just moved along a choice while the first, which  *)
(* had moved before, is somewhere else.                                     *)
C34_Witness ==
  /\ active = 2
  /\ runtime = "live" /\ resting.runtime = "live"
  /\ Called("choose") /\ Returned /\ ~PositionUnchanged
  /\ PositionOf(1) # PositionOf(2)
  /\ PositionOf(1) # [knotId |-> story.entryKnot,
                      nodeId |-> story.knots[story.entryKnot].entryNode]

====
